---------------------------- MODULE Spec2Model ----------------------------
(***************************************************************************)
(* A model of src/fastapi_test/main.py: the in-memory rate limiter         *)
(* (_rate_limited), the chat handler, the PII sanitizer (_strip_html,      *)
(* _mask_sensitive) and the PDF field service (_load_pdf_reader,           *)
(* _fill_pdf, _stamp_pdf).                                                 *)
(***************************************************************************)
EXTENDS Integers, Sequences, FiniteSets, TLC

(***************************************************************************)
(* Bounds of the model and constants of the program.                       *)
(***************************************************************************)
RATE_LIMIT_PER_MIN == 10

WINDOW_SECONDS == 60

MaxClock == 61

MaxClockSeq == 122

MaxCalls == 12

Clients == {"10.0.0.1", "10.0.0.2"}

\* the threads that may be inside _rate_limited at the same time
Threads == {1, 2}

\* the value of ip in a thread that is not inside a call
NoClient == "-"

\* The monotonic clock advances by one of these amounts: 60 leaves an entry
\* exactly on the edge of the window, 61 puts it just outside.
TickSteps == {WINDOW_SECONDS, WINDOW_SECONDS + 1}

VARIABLES
    clock,        \* time.monotonic(), in seconds
    rate_bucket,  \* _rate_bucket: client -> deque of timestamps, oldest first
    rate_lock,    \* _rate_lock: 0 when free, else the thread holding it
    pc,           \* per thread: its position inside _rate_limited
    ip,           \* per thread: the argument ip of its call
    now,          \* per thread: the local variable now
    ret,          \* per thread: the value its call returns ("True", "False"; "none" until decided)
    accepted,     \* history: per client, the timestamps of calls that returned False
    calls,        \* history: the number of calls started
    strip_pc,     \* _strip_html: the number of re.sub passes done
    strip_in,     \* _strip_html: the argument text
    strip_kept1,  \* the positions of strip_in that the first pass kept
    strip_kept2,  \* the positions of the first pass's result that the second pass kept
    mask_rule,    \* _mask_sensitive: the index of the next pattern (NumRules + 1: returned)
    mask_in,      \* _mask_sensitive: the argument text
    masked,       \* _mask_sensitive: the local variable masked
    warnings,     \* _mask_sensitive: the local variable warnings
    pdf_doc,      \* the file at OFFICIAL_PDF_PATH as the PDF library reports it
    pdf_req,      \* the request to one of the three PDF routes (NoRequest before it arrives)
    pdf_resp,     \* the response to it (NoResponse before)
    chat_pc,      \* chat: the handler's position
    chat_ip,      \* chat: the local variable ip
    chat_msg,     \* chat: payload.message
    chat_limited, \* chat: what _rate_limited(ip) returned ("none" before the call)
    chat_text,    \* chat: the locals cleaned, then sanitized
    chat_warnings,\* chat: the local variable warnings
    chat_trace,   \* history: the functions the handler has called for this request
    chat_resp     \* chat: the response to the last request (NoResponse before)

rateVars == <<clock, rate_bucket, rate_lock, pc, ip, now, ret, accepted, calls>>

stripVars == <<strip_pc, strip_in, strip_kept1, strip_kept2>>

maskVars == <<mask_rule, mask_in, masked, warnings>>

pdfVars == <<pdf_doc, pdf_req, pdf_resp>>

chatVars == <<chat_pc, chat_ip, chat_msg, chat_limited, chat_text, chat_warnings, chat_trace, chat_resp>>

nonRateVars == <<stripVars, maskVars, pdfVars, chatVars>>

vars == <<rateVars, stripVars, maskVars, pdfVars, chatVars>>

(***************************************************************************)
(* _rate_limited, one action per step of the function.                     *)
(***************************************************************************)
RateStart ==
    /\ clock = 0
    /\ rate_bucket = [c \in Clients |-> <<>>]
    /\ rate_lock = 0
    /\ pc = [t \in Threads |-> "idle"]
    /\ ip = [t \in Threads |-> NoClient]
    /\ now = [t \in Threads |-> 0]
    /\ ret = [t \in Threads |-> "none"]
    /\ accepted = [c \in Clients |-> <<>>]
    /\ calls = 0

\* time passes: time.monotonic() never goes back
Tick(limit) ==
    /\ \E d \in TickSteps :
        /\ clock + d <= limit
        /\ clock' = clock + d
    /\ UNCHANGED <<rate_bucket, rate_lock, pc, ip, now, ret, accepted, calls>>
    /\ UNCHANGED nonRateVars

\* now = time.monotonic()
ReadClock(t, c) ==
    /\ pc[t] = "idle"
    /\ calls < MaxCalls
    /\ calls' = calls + 1
    /\ ip' = [ip EXCEPT ![t] = c]
    /\ now' = [now EXCEPT ![t] = clock]
    /\ pc' = [pc EXCEPT ![t] = "acquire"]
    /\ UNCHANGED <<clock, rate_bucket, rate_lock, ret, accepted>>
    /\ UNCHANGED nonRateVars

\* a mutex that excludes nobody
LockFreeAlways == TRUE

\* with _rate_lock: the lock can be taken only when no thread holds it
LockFree == rate_lock = 0

\* with _rate_lock: q = _rate_bucket[ip]
Acquire(t) ==
    /\ pc[t] = "acquire"
    /\ LockFree
    /\ rate_lock' = t
    /\ pc' = [pc EXCEPT ![t] = "evict"]
    /\ UNCHANGED <<clock, rate_bucket, ip, now, ret, accepted, calls>>
    /\ UNCHANGED nonRateVars

\* the loop test that keeps an entry only while it is younger than the window
ExpiredStrictlyInside(n, ts) == n - ts >= WINDOW_SECONDS

\* now - q[0] > 60
Expired(n, ts) == n - ts > WINDOW_SECONDS

\* while q and now - q[0] > 60: q.popleft()
Evict(t) ==
    /\ pc[t] = "evict"
    /\ LET q == rate_bucket[ip[t]] IN
        IF q # <<>> /\ Expired(now[t], Head(q))
        THEN /\ rate_bucket' = [rate_bucket EXCEPT ![ip[t]] = Tail(q)]
             /\ pc' = pc
        ELSE /\ rate_bucket' = rate_bucket
             /\ pc' = [pc EXCEPT ![t] = "check"]
    /\ UNCHANGED <<clock, rate_lock, ip, now, ret, accepted, calls>>
    /\ UNCHANGED nonRateVars

\* a limiter that records the attempt before refusing it
CheckRecording(t) ==
    /\ pc[t] = "check"
    /\ IF Len(rate_bucket[ip[t]]) >= RATE_LIMIT_PER_MIN
       THEN /\ ret' = [ret EXCEPT ![t] = "True"]
            /\ rate_bucket' = [rate_bucket EXCEPT ![ip[t]] = Append(Tail(@), now[t])]
            /\ pc' = [pc EXCEPT ![t] = "release"]
       ELSE /\ ret' = ret
            /\ rate_bucket' = rate_bucket
            /\ pc' = [pc EXCEPT ![t] = "append"]
    /\ UNCHANGED <<clock, rate_lock, ip, now, accepted, calls>>
    /\ UNCHANGED nonRateVars

\* if len(q) >= RATE_LIMIT_PER_MIN: return True
Check(t) ==
    /\ pc[t] = "check"
    /\ IF Len(rate_bucket[ip[t]]) >= RATE_LIMIT_PER_MIN
       THEN /\ ret' = [ret EXCEPT ![t] = "True"]
            /\ pc' = [pc EXCEPT ![t] = "release"]
       ELSE /\ ret' = ret
            /\ pc' = [pc EXCEPT ![t] = "append"]
    /\ UNCHANGED <<clock, rate_bucket, rate_lock, ip, now, accepted, calls>>
    /\ UNCHANGED nonRateVars

\* q.append(now); the call will return False
AppendNow(t) ==
    /\ pc[t] = "append"
    /\ rate_bucket' = [rate_bucket EXCEPT ![ip[t]] = Append(@, now[t])]
    /\ accepted' = [accepted EXCEPT ![ip[t]] = Append(@, now[t])]
    /\ ret' = [ret EXCEPT ![t] = "False"]
    /\ pc' = [pc EXCEPT ![t] = "release"]
    /\ UNCHANGED <<clock, rate_lock, ip, now, calls>>
    /\ UNCHANGED nonRateVars

\* leaving the with block releases the lock; the call returns ret[t] and its
\* locals (ip, now) are gone
Release(t) ==
    /\ pc[t] = "release"
    /\ rate_lock' = 0
    /\ pc' = [pc EXCEPT ![t] = "idle"]
    /\ ip' = [ip EXCEPT ![t] = NoClient]
    /\ now' = [now EXCEPT ![t] = 0]
    /\ ret' = [ret EXCEPT ![t] = "none"]
    /\ UNCHANGED <<clock, rate_bucket, accepted, calls>>
    /\ UNCHANGED nonRateVars

InCall(t) == pc[t] # "idle"

InCritical(t) == pc[t] \in {"evict", "check", "append", "release"}

\* concurrent calls of _rate_limited: any interleaving of the threads' steps
Next ==
    \/ Tick(MaxClock)
    \/ \E t \in Threads : \E c \in Clients : ReadClock(t, c)
    \/ \E t \in Threads : Acquire(t)
    \/ \E t \in Threads : Evict(t)
    \/ \E t \in Threads : Check(t)
    \/ \E t \in Threads : AppendNow(t)
    \/ \E t \in Threads : Release(t)

\* calls of _rate_limited one after the other: a call starts only when no
\* other call is in progress
NextSeq ==
    \/ Tick(MaxClockSeq)
    \/ \E t \in Threads : \E c \in Clients :
        /\ \A u \in Threads : ~InCall(u)
        /\ ReadClock(t, c)
    \/ \E t \in Threads : Acquire(t)
    \/ \E t \in Threads : Evict(t)
    \/ \E t \in Threads : Check(t)
    \/ \E t \in Threads : AppendNow(t)
    \/ \E t \in Threads : Release(t)


(***************************************************************************)
(* Text: a Python str is a sequence of one-character strings, indexed      *)
(* from 1; "position i" of a pattern match is the index of its first       *)
(* character and its "end" the index after its last one.                   *)
(***************************************************************************)
Digits == {"0", "1", "2", "3", "4", "5", "6", "7", "8", "9"}

UpperLetters == <<"A", "B", "C", "D", "E", "F", "G", "H", "I", "J", "K", "L", "M",
                  "N", "O", "P", "Q", "R", "S", "T", "U", "V", "W", "X", "Y", "Z">>

LowerLetters == <<"a", "b", "c", "d", "e", "f", "g", "h", "i", "j", "k", "l", "m",
                  "n", "o", "p", "q", "r", "s", "t", "u", "v", "w", "x", "y", "z">>

Range(seq) == {seq[i] : i \in DOMAIN seq}

\* \d
IsDigit(ch) == ch \in Digits

UpperSet == Range(UpperLetters)

WordChars == Digits \cup Range(UpperLetters) \cup Range(LowerLetters) \cup {"_"}

\* [A-Z]
IsUpper(ch) == ch \in UpperSet

\* \w
IsWord(ch) == ch \in WordChars

\* re.IGNORECASE compares characters by their lower-case form
Lower(ch) ==
    IF IsUpper(ch)
    THEN LowerLetters[CHOOSE i \in DOMAIN UpperLetters : UpperLetters[i] = ch]
    ELSE ch

\* \b at position i: exactly one of the characters around it is a word character
WordBoundary(s, i) ==
    (i > 1 /\ i - 1 <= Len(s) /\ IsWord(s[i - 1])) # (i >= 1 /\ i <= Len(s) /\ IsWord(s[i]))

\* the characters of s from position i are lit (already lower-case), ignoring case
MatchLitIgnoreCase(s, i, lit) ==
    /\ i >= 1
    /\ i + Len(lit) - 1 <= Len(s)
    /\ \A k \in DOMAIN lit : Lower(s[i + k - 1]) = lit[k]

\* the same comparison without re.IGNORECASE
MatchLitExact(s, i, lit) ==
    /\ i >= 1
    /\ i + Len(lit) - 1 <= Len(s)
    /\ \A k \in DOMAIN lit : s[i + k - 1] = lit[k]

\* the first position >= from that holds ch, 0 when there is none
IndexOf(s, ch, from) ==
    LET hits == {j \in from..Len(s) : s[j] = ch}
    IN  IF hits = {} THEN 0 ELSE CHOOSE j \in hits : \A k \in hits : j <= k

Flatten(seqs) ==
    LET F[n \in 0..Len(seqs)] == IF n = 0 THEN <<>> ELSE F[n - 1] \o seqs[n]
    IN  F[Len(seqs)]

\* s occurs in text as a contiguous run
Contains(text, s) ==
    \E i \in 1..(Len(text) - Len(s) + 1) : MatchLitExact(text, i, s)

(***************************************************************************)
(* _strip_html: two re.sub passes that delete their matches.               *)
(***************************************************************************)
ScriptOpen == <<"<", "s", "c", "r", "i", "p", "t">>

ScriptClose == <<"<", "/", "s", "c", "r", "i", "p", "t", ">">>

\* the first position >= from where </script> starts, 0 when there is none
CloseIndex(s, from) ==
    LET hits == {j \in from..Len(s) : MatchLitIgnoreCase(s, j, ScriptClose)}
    IN  IF hits = {} THEN 0 ELSE CHOOSE j \in hits : \A k \in hits : j <= k

\* the first pass without re.IGNORECASE
ScriptMatchEndCaseSensitive(s, i) ==
    IF MatchLitExact(s, i, ScriptOpen) /\ WordBoundary(s, i + Len(ScriptOpen))
    THEN LET gt == IndexOf(s, ">", i + Len(ScriptOpen))
             close == IF gt = 0 THEN 0 ELSE
                        LET hits == {j \in (gt + 1)..Len(s) : MatchLitExact(s, j, ScriptClose)}
                        IN  IF hits = {} THEN 0 ELSE CHOOSE j \in hits : \A k \in hits : j <= k
         IN  IF close = 0 THEN 0 ELSE close + Len(ScriptClose)
    ELSE 0

\* <script\b[^>]*>.*?</script> with IGNORECASE | DOTALL, tried at position i:
\* the end of the match, 0 when it does not match there.  [^>]* stops at the
\* first ">" and the lazy .*? at the first </script> after it.
ScriptMatchEnd(s, i) ==
    IF MatchLitIgnoreCase(s, i, ScriptOpen) /\ WordBoundary(s, i + Len(ScriptOpen))
    THEN LET gt == IndexOf(s, ">", i + Len(ScriptOpen))
             close == IF gt = 0 THEN 0 ELSE CloseIndex(s, gt + 1)
         IN  IF close = 0 THEN 0 ELSE close + Len(ScriptClose)
    ELSE 0

\* <[^>]+> tried at position i: "<", at least one character that is not ">",
\* then the first ">"
TagMatchEnd(s, i) ==
    IF i + 1 <= Len(s) /\ s[i] = "<" /\ s[i + 1] # ">"
    THEN LET gt == IndexOf(s, ">", i + 2)
         IN  IF gt = 0 THEN 0 ELSE gt + 1
    ELSE 0

StripMatchEnd(pass, s, i) ==
    IF pass = 1 THEN ScriptMatchEnd(s, i) ELSE TagMatchEnd(s, i)

\* re.sub(pattern, "", s): scan from the left, delete each match and go on
\* behind it.  The result is the sequence of positions of s that are kept.
RECURSIVE KeptFrom(_, _, _)
KeptFrom(pass, s, i) ==
    IF i > Len(s) THEN <<>>
    ELSE LET e == StripMatchEnd(pass, s, i)
         IN  IF e # 0 THEN KeptFrom(pass, s, e)
             ELSE <<i>> \o KeptFrom(pass, s, i + 1)

\* the characters of s at the positions kept
TextAt(s, kept) == [j \in DOMAIN kept |-> s[kept[j]]]

\* _strip_html(text)
StripHtml(text) ==
    LET mid == TextAt(text, KeptFrom(1, text, 1))
    IN  TextAt(mid, KeptFrom(2, mid, 1))

(***************************************************************************)
(* _mask_sensitive: five pattern rules applied in order.                   *)
(***************************************************************************)
NumRules == 5

RuleLabel == <<"SSN/SIN", "SIN", "credit card", "passport", "passport">>

\* f"Sensitive data detected: {label}. Please avoid sharing it."
WarningFor(label) == <<"Sensitive data detected: ", label, ". Please avoid sharing it.">>

RedactionToken == <<"[", "R", "E", "D", "A", "C", "T", "E", "D", "]">>

Separators == {" ", "-"}

\* the n characters of s from position i all satisfy Test
RunOf(s, i, n, Test(_)) ==
    /\ i >= 1
    /\ i + n - 1 <= Len(s)
    /\ \A k \in i..(i + n - 1) : Test(s[k])

\* \b\d{3}-\d{2}-\d{4}\b tried at position i
SsnMatchEnd(s, i) ==
    IF /\ WordBoundary(s, i)
       /\ i + 10 <= Len(s)
       /\ RunOf(s, i, 3, IsDigit) /\ s[i + 3] = "-"
       /\ RunOf(s, i + 4, 2, IsDigit) /\ s[i + 6] = "-"
       /\ RunOf(s, i + 7, 4, IsDigit)
       /\ WordBoundary(s, i + 11)
    THEN i + 11 ELSE 0

\* \b\d{9}\b tried at position i
SinMatchEnd(s, i) ==
    IF WordBoundary(s, i) /\ RunOf(s, i, 9, IsDigit) /\ WordBoundary(s, i + 9)
    THEN i + 9 ELSE 0

\* \b(?:\d[ -]*?){13,19}\b by backtracking.  CardAfter: reps groups are
\* matched and the next one would start at p; the greedy {13,19} first tries
\* one more group and only then the closing \b.  CardSeps: inside a group,
\* after its digit, the lazy [ -]*? first tries to stop at q and only then
\* takes one more separator.
RECURSIVE CardAfter(_, _, _), CardSeps(_, _, _)
CardAfter(s, p, reps) ==
    LET more == IF reps < 19 /\ p <= Len(s) /\ IsDigit(s[p])
                THEN CardSeps(s, p + 1, reps + 1) ELSE 0
    IN  IF more # 0 THEN more
        ELSE IF reps >= 13 /\ WordBoundary(s, p) THEN p ELSE 0

CardSeps(s, q, reps) ==
    LET stop == CardAfter(s, q, reps)
    IN  IF stop # 0 THEN stop
        ELSE IF q <= Len(s) /\ s[q] \in Separators THEN CardSeps(s, q + 1, reps) ELSE 0

CardMatchEnd(s, i) == IF WordBoundary(s, i) THEN CardAfter(s, i, 0) ELSE 0

\* the first element of the sequence tries that is a match end, 0 when none is
FirstEnd(tries) ==
    LET hits == {k \in DOMAIN tries : tries[k] # 0}
    IN  IF hits = {} THEN 0 ELSE tries[CHOOSE k \in hits : \A j \in hits : k <= j]

\* letters upper-case letters, digits digits and \b, from position i
PassportShape(s, i, letters, digits) ==
    IF /\ RunOf(s, i, letters, IsUpper)
       /\ RunOf(s, i + letters, digits, IsDigit)
       /\ WordBoundary(s, i + letters + digits)
    THEN i + letters + digits ELSE 0

\* \b[A-Z]{1,2}\d{6,8}\b tried at position i: both quantifiers are greedy, so
\* two letters before one, and 8 digits before 7 before 6
PassportMatchEnd(s, i) ==
    IF WordBoundary(s, i)
    THEN FirstEnd(<<PassportShape(s, i, 2, 8), PassportShape(s, i, 2, 7),
                    PassportShape(s, i, 2, 6), PassportShape(s, i, 1, 8),
                    PassportShape(s, i, 1, 7), PassportShape(s, i, 1, 6)>>)
    ELSE 0

IsUpperOrDigit(ch) == IsUpper(ch) \/ IsDigit(ch)

AlnumShape(s, i, n) ==
    IF RunOf(s, i, n, IsUpperOrDigit) /\ WordBoundary(s, i + n) THEN i + n ELSE 0

\* \b[A-Z0-9]{8,9}\b tried at position i: 9 characters before 8
AlnumMatchEnd(s, i) ==
    IF WordBoundary(s, i)
    THEN FirstEnd(<<AlnumShape(s, i, 9), AlnumShape(s, i, 8)>>)
    ELSE 0

\* patterns[rule] tried at position i of s
RuleMatchEnd(rule, s, i) ==
    CASE rule = 1 -> SsnMatchEnd(s, i)
      [] rule = 2 -> SinMatchEnd(s, i)
      [] rule = 3 -> CardMatchEnd(s, i)
      [] rule = 4 -> PassportMatchEnd(s, i)
      [] rule = 5 -> AlnumMatchEnd(s, i)

\* re.search(pattern, masked)
RuleSearch(rule, s) == \E i \in 1..Len(s) : RuleMatchEnd(rule, s, i) # 0

\* re.sub(pattern, "[REDACTED]", s) from position i on: every match, found
\* scanning from the left, is replaced and the scan goes on behind it
RECURSIVE RuleSubFrom(_, _, _)
RuleSubFrom(rule, s, i) ==
    IF i > Len(s) THEN <<>>
    ELSE LET e == RuleMatchEnd(rule, s, i)
         IN  IF e # 0 THEN RedactionToken \o RuleSubFrom(rule, s, e)
             ELSE <<s[i]>> \o RuleSubFrom(rule, s, i + 1)

\* a substitution that replaces the first match only
RuleSubFirstOnly(rule, s) ==
    LET hits == {i \in 1..Len(s) : RuleMatchEnd(rule, s, i) # 0}
        first == CHOOSE i \in hits : \A k \in hits : i <= k
    IN  IF hits = {} THEN s
        ELSE SubSeq(s, 1, first - 1) \o RedactionToken
                \o SubSeq(s, RuleMatchEnd(rule, s, first), Len(s))

\* re.sub(pattern, "[REDACTED]", masked)
RuleSub(rule, s) == RuleSubFrom(rule, s, 1)

\* one turn of the loop over patterns, on the pair (masked, warnings)
MaskStep(rule, text, warns) ==
    IF RuleSearch(rule, text)
    THEN [masked |-> RuleSub(rule, text),
          warnings |-> Append(warns, WarningFor(RuleLabel[rule]))]
    ELSE [masked |-> text, warnings |-> warns]

\* _mask_sensitive(text): the pair (masked, warnings) after all five rules
MaskSensitive(text) ==
    LET M[k \in 0..NumRules] ==
            IF k = 0 THEN [masked |-> text, warnings |-> <<>>]
            ELSE MaskStep(k, M[k - 1].masked, M[k - 1].warnings)
    IN  M[NumRules]

(***************************************************************************)
(* The sanitizer's two functions as state machines over bounded inputs.    *)
(***************************************************************************)
MaxHtmlFrags == 6

MaxPiiFrags == 3

\* the pieces the inputs of _strip_html are put together from
HtmlFrags ==
    { <<"<", "S", "C", "R", "I", "P", "T", " ", "t", "=", "1", ">">>,
      <<"<", "/", "S", "c", "r", "i", "p", "t", ">">>,
      <<"<", "s", "c", "r">>,
      <<"i", "p", "t", ">">>,
      <<"x", "\n">> }

\* the pieces the inputs of _mask_sensitive are put together from
PiiFrags ==
    { <<"1", "2", "3", "-", "4", "5", "-", "6", "7", "8", "9">>,
      <<"1", "2", "3", "4", "5", "6", "7", "8", "9">>,
      <<"4", "1", "1", "1", "1", "1", "1", "1", "1", "1", "1", "1", "1">>,
      <<"A", "B", "1", "2", "3", "4", "5", "6">>,
      <<"A", "1", "B", "2", "C", "3", "D", "4">>,
      <<" ">>,
      <<"a">>,
      <<"-">> }

\* every text made of at most max pieces
TextsOf(frags, max) ==
    {Flatten(fs) : fs \in UNION {[1..n -> frags] : n \in 0..max}}

StripStart ==
    /\ strip_pc = 0
    /\ strip_kept1 = <<>>
    /\ strip_kept2 = <<>>

\* text = re.sub(r"<script\b[^>]*>.*?</script>", "", text, flags=re.IGNORECASE | re.DOTALL)
StripScripts ==
    /\ strip_pc = 0
    /\ strip_kept1' = KeptFrom(1, strip_in, 1)
    /\ strip_pc' = 1
    /\ UNCHANGED <<strip_in, strip_kept2, rateVars, maskVars, pdfVars, chatVars>>

\* text = re.sub(r"<[^>]+>", "", text); return text
StripTags ==
    /\ strip_pc = 1
    /\ strip_kept2' = KeptFrom(2, TextAt(strip_in, strip_kept1), 1)
    /\ strip_pc' = 2
    /\ UNCHANGED <<strip_in, strip_kept1, rateVars, maskVars, pdfVars, chatVars>>

\* the text after the first pass
StripMid == TextAt(strip_in, strip_kept1)

\* the text _strip_html returns
StripOut == TextAt(StripMid, strip_kept2)

\* the positions of strip_in whose characters are in the returned text
StripSurvivors == {strip_kept1[strip_kept2[j]] : j \in DOMAIN strip_kept2}

MaskStart ==
    /\ mask_rule = 1
    /\ masked = mask_in
    /\ warnings = <<>>

\* for pattern, label in patterns: if re.search(...): masked = re.sub(...); warnings.append(...)
MaskRule ==
    /\ mask_rule <= NumRules
    /\ LET r == MaskStep(mask_rule, masked, warnings)
       IN  /\ masked' = r.masked
           /\ warnings' = r.warnings
    /\ mask_rule' = mask_rule + 1
    /\ UNCHANGED <<mask_in, rateVars, stripVars, pdfVars, chatVars>>

(***************************************************************************)
(* The PDF field service.  The PDF library is outside the repository: the  *)
(* model keeps what the code tells it to do (the calls and their           *)
(* arguments) and what the code reads back from it.                        *)
(***************************************************************************)
\* no request received yet, no response sent yet, a response without a document
NoRequest == [op |-> "none"]

NoBody == [kind |-> "none"]

NoResponse == [status |-> 0, body |-> NoBody]

MaxPages == 2

MaxStamps == 2

FieldNames == {"Name", "Agree"}

\* field values a request may carry: plain text, a name constant, the empty string
FieldValues == {<<"J", "a", "n", "e">>, <<"/", "Y", "e", "s">>, <<>>}

\* stamp texts: empty, whitespace only, text with a surrounding space
StampTexts == {<<>>, <<" ">>, <<" ", "X">>}

\* what reader.decrypt("") may do on an encrypted file: succeed, raise, or
\* return the "not decrypted" result without raising
DecryptOutcomes == {"ok", "raises", "not_decrypted"}

PdfDocs ==
    [exists : BOOLEAN, encrypted : BOOLEAN, decrypt : DecryptOutcomes, pages : 1..MaxPages]

\* fields: Dict[str, str]
FieldMaps == UNION {[names -> FieldValues] : names \in SUBSET FieldNames}

\* stamps: List[PdfStampItem]; page may lie outside the document
StampLists ==
    UNION {[1..n -> [page : 0..MaxPages, text : StampTexts]] : n \in 0..MaxStamps}

\* _load_pdf_reader(): 404 when the file is missing, 400 when decrypt("")
\* raises; otherwise the reader is returned, readable unless the file is
\* encrypted and decrypt("") did not decrypt it
LoadPdfReader(doc) ==
    IF ~doc.exists THEN [status |-> 404, readable |-> FALSE]
    ELSE IF doc.encrypted /\ doc.decrypt = "raises" THEN [status |-> 400, readable |-> FALSE]
    ELSE [status |-> 200, readable |-> ~doc.encrypted \/ doc.decrypt = "ok"]

\* value.startswith("/")
StartsWithSlash(value) == Len(value) > 0 /\ value[1] = "/"

\* normalized[key] = NameObject(value) if value.startswith("/") else value
Normalized(fields) ==
    [key \in DOMAIN fields |->
        IF StartsWithSlash(fields[key])
        THEN [kind |-> "NameObject", value |-> fields[key]]
        ELSE [kind |-> "str", value |-> fields[key]]]

\* for page in writer.pages: writer.update_page_form_field_values(page,
\* normalized, auto_regenerate=True, flatten=flatten): per page, the call made
UpdatedPages(doc, fields, flatten) ==
    [page \in 1..doc.pages |->
        [values |-> Normalized(fields), auto_regenerate |-> TRUE, flatten |-> flatten]]

\* str.strip() for the characters of StampTexts
RECURSIVE LStrip(_)
LStrip(text) == IF text # <<>> /\ Head(text) = " " THEN LStrip(Tail(text)) ELSE text

RECURSIVE RStrip(_)
RStrip(text) ==
    IF text # <<>> /\ text[Len(text)] = " " THEN RStrip(SubSeq(text, 1, Len(text) - 1)) ELSE text

StripSpaces(text) == LStrip(RStrip(text))

\* the c.drawString calls for the overlay page of page_index (counted from
\* 0): one per stamp of that page whose stripped text is not empty, in order.
\* Each call is kept as the text it draws; its position and font size are
\* arithmetic on the stamp's and the page's sizes and decide nothing here.
RECURSIVE DrawCalls(_, _)
DrawCalls(stamps, page_index) ==
    IF stamps = <<>> THEN <<>>
    ELSE LET item == Head(stamps)
             rest == DrawCalls(Tail(stamps), page_index)
         IN  IF item.page # page_index THEN rest
             ELSE IF StripSpaces(item.text) = <<>> THEN rest
             ELSE <<StripSpaces(item.text)>> \o rest

\* a failure inside the PDF library reaches the client as a server error
ServerError == [status |-> 500, body |-> NoBody]

\* pr_card_pdf_fields: _load_pdf_reader(), then _list_pdf_fields(reader)
ListFieldsResponse(doc) ==
    LET reader == LoadPdfReader(doc)
    IN  IF reader.status # 200 THEN [status |-> reader.status, body |-> NoBody]
        ELSE IF ~reader.readable THEN ServerError
        ELSE [status |-> 200, body |-> [kind |-> "fields"]]

\* _fill_pdf(fields, flatten): the document written out
FillPdf(doc, fields, flatten) ==
    LET reader == LoadPdfReader(doc)
    IN  IF reader.status # 200 THEN [status |-> reader.status, body |-> NoBody]
        ELSE IF ~reader.readable THEN ServerError
        ELSE [status |-> 200,
              body |-> [kind |-> "pdf",
                        pages |-> UpdatedPages(doc, fields, flatten),
                        root |-> {"/NeedAppearances"},
                        overlay |-> <<>>]]

\* _stamp_pdf(fields, pages, stamps, flatten): the document written out; every
\* page gets its overlay page merged, with the drawString calls made on it
StampPdf(doc, fields, stamps, flatten) ==
    LET reader == LoadPdfReader(doc)
    IN  IF reader.status # 200 THEN [status |-> reader.status, body |-> NoBody]
        ELSE IF ~reader.readable THEN ServerError
        ELSE [status |-> 200,
              body |-> [kind |-> "pdf",
                        pages |-> UpdatedPages(doc, fields, flatten),
                        root |-> {},
                        overlay |-> [page \in 1..doc.pages |-> DrawCalls(stamps, page - 1)]]]

PdfStart ==
    /\ pdf_req = NoRequest
    /\ pdf_resp = NoResponse

\* GET /api/pr-card-pdf/fields
PrCardPdfFields ==
    /\ pdf_req = NoRequest
    /\ pdf_req' = [op |-> "listFields"]
    /\ pdf_resp' = ListFieldsResponse(pdf_doc)
    /\ UNCHANGED <<pdf_doc, rateVars, stripVars, maskVars, chatVars>>

\* POST /api/pr-card-pdf
PrCardPdfFill ==
    /\ pdf_req = NoRequest
    /\ \E fields \in FieldMaps : \E flatten \in BOOLEAN :
        /\ pdf_req' = [op |-> "fillFields", fields |-> fields, flatten |-> flatten]
        /\ pdf_resp' = FillPdf(pdf_doc, fields, flatten)
    /\ UNCHANGED <<pdf_doc, rateVars, stripVars, maskVars, chatVars>>

\* POST /api/pr-card-pdf-stamp
PrCardPdfStamp ==
    /\ pdf_req = NoRequest
    /\ \E fields \in FieldMaps : \E flatten \in BOOLEAN : \E stamps \in StampLists :
        /\ pdf_req' = [op |-> "stampOverlay", fields |-> fields, flatten |-> flatten,
                       stamps |-> stamps]
        /\ pdf_resp' = StampPdf(pdf_doc, fields, stamps, flatten)
    /\ UNCHANGED <<pdf_doc, rateVars, stripVars, maskVars, chatVars>>

(***************************************************************************)
(* The chat handler.  It is an async function without an await, so the     *)
(* event loop runs one request's handler to its end before the next, and   *)
(* its call of _rate_limited is never interleaved with another one.        *)
(***************************************************************************)
\* payload.message of the requests
ChatMessages ==
    { <<"h", "i">>,
      <<"<", "b", ">", "1", "2", "3", "-", "4", "5", "-", "6", "7", "8", "9", "<", "/", "b", ">">> }

\* while q and now - q[0] > 60: q.popleft()
RECURSIVE EvictExpired(_, _)
EvictExpired(q, n) ==
    IF q # <<>> /\ Expired(n, Head(q)) THEN EvictExpired(Tail(q), n) ELSE q

\* _rate_limited(ip) run from its first line to its return, on the record q
\* with the clock at n: the value returned and the record left
RateLimited(q, n) ==
    LET left == EvictExpired(q, n)
    IN  IF Len(left) >= RATE_LIMIT_PER_MIN
        THEN [limited |-> TRUE, q |-> left]
        ELSE [limited |-> FALSE, q |-> Append(left, n)]

\* a handler that goes on to the sanitizer whatever the limiter said
AfterRateLimitIgnored(limited) == "strip"

\* if _rate_limited(ip): return JSONResponse(status_code=429, ...)
AfterRateLimit(limited) == IF limited THEN "throttled" ELSE "strip"

RateLimitWarning == "Rate limit: 10 requests per minute per IP."

\* the canned reply of _call_llm, as _parse_model_json reads it
LlmReply ==
    [assistant_answer |-> "AI is currently disabled. Please connect an LLM provider.",
     suggested_fill_en |-> "",
     warnings |-> <<>>]

ChatStart ==
    /\ chat_pc = "idle"
    /\ chat_ip = NoClient
    /\ chat_msg = <<>>
    /\ chat_limited = "none"
    /\ chat_text = <<>>
    /\ chat_warnings = <<>>
    /\ chat_trace = <<>>
    /\ chat_resp = NoResponse

\* a request arrives: ip = _get_client_ip(request)
ChatReceive ==
    /\ chat_pc = "idle"
    /\ calls < MaxCalls
    /\ calls' = calls + 1
    /\ \E c \in Clients : chat_ip' = c
    /\ \E m \in ChatMessages : chat_msg' = m
    /\ chat_pc' = "rate"
    /\ chat_limited' = "none"
    /\ chat_trace' = <<>>
    /\ chat_resp' = NoResponse
    /\ UNCHANGED <<chat_text, chat_warnings>>
    /\ UNCHANGED <<clock, rate_bucket, rate_lock, pc, ip, now, ret, accepted>>
    /\ UNCHANGED <<stripVars, maskVars, pdfVars>>

\* if _rate_limited(ip):
ChatRateLimit ==
    /\ chat_pc = "rate"
    /\ LET r == RateLimited(rate_bucket[chat_ip], clock)
       IN  /\ rate_bucket' = [rate_bucket EXCEPT ![chat_ip] = r.q]
           /\ accepted' = IF r.limited THEN accepted
                          ELSE [accepted EXCEPT ![chat_ip] = Append(@, clock)]
           /\ chat_limited' = IF r.limited THEN "True" ELSE "False"
           /\ chat_pc' = AfterRateLimit(r.limited)
    /\ chat_trace' = Append(chat_trace, "_rate_limited")
    /\ UNCHANGED <<chat_ip, chat_msg, chat_text, chat_warnings, chat_resp>>
    /\ UNCHANGED <<clock, rate_lock, pc, ip, now, ret, calls>>
    /\ UNCHANGED <<stripVars, maskVars, pdfVars>>

\* return JSONResponse(status_code=429, content={...})
ChatThrottled ==
    /\ chat_pc = "throttled"
    /\ chat_resp' = [status |-> 429,
                     assistant_answer |-> "Please wait a moment before sending more messages.",
                     suggested_fill_en |-> "",
                     warnings |-> <<RateLimitWarning>>]
    /\ chat_pc' = "idle"
    /\ chat_ip' = NoClient
    /\ chat_msg' = <<>>
    /\ UNCHANGED <<chat_limited, chat_text, chat_warnings, chat_trace>>
    /\ UNCHANGED <<rateVars, stripVars, maskVars, pdfVars>>

\* cleaned = _strip_html(payload.message)
ChatStrip ==
    /\ chat_pc = "strip"
    /\ chat_text' = StripHtml(chat_msg)
    /\ chat_trace' = Append(chat_trace, "_strip_html")
    /\ chat_pc' = "mask"
    /\ UNCHANGED <<chat_ip, chat_msg, chat_limited, chat_warnings, chat_resp>>
    /\ UNCHANGED <<rateVars, stripVars, maskVars, pdfVars>>

\* sanitized, warnings = _mask_sensitive(cleaned)
ChatMask ==
    /\ chat_pc = "mask"
    /\ LET r == MaskSensitive(chat_text)
       IN  /\ chat_text' = r.masked
           /\ chat_warnings' = r.warnings
    /\ chat_trace' = Append(chat_trace, "_mask_sensitive")
    /\ chat_pc' = "llm"
    /\ UNCHANGED <<chat_ip, chat_msg, chat_limited, chat_resp>>
    /\ UNCHANGED <<rateVars, stripVars, maskVars, pdfVars>>

\* messages = _build_messages(...); raw = _call_llm(messages);
\* parsed = _parse_model_json(raw)
ChatLlm ==
    /\ chat_pc = "llm"
    /\ chat_trace' = chat_trace \o <<"_build_messages", "_call_llm", "_parse_model_json">>
    /\ chat_pc' = "respond"
    /\ UNCHANGED <<chat_ip, chat_msg, chat_limited, chat_text, chat_warnings, chat_resp>>
    /\ UNCHANGED <<rateVars, stripVars, maskVars, pdfVars>>

\* merged_warnings = warnings + list(parsed.get("warnings", [])); return ChatResponse(...)
ChatRespond ==
    /\ chat_pc = "respond"
    /\ chat_resp' = [status |-> 200,
                     assistant_answer |-> LlmReply.assistant_answer,
                     suggested_fill_en |-> LlmReply.suggested_fill_en,
                     warnings |-> chat_warnings \o LlmReply.warnings]
    /\ chat_pc' = "idle"
    /\ chat_ip' = NoClient
    /\ chat_msg' = <<>>
    /\ chat_text' = <<>>
    /\ chat_warnings' = <<>>
    /\ UNCHANGED <<chat_limited, chat_trace>>
    /\ UNCHANGED <<rateVars, stripVars, maskVars, pdfVars>>

(***************************************************************************)
(* Specifications.                                                         *)
(***************************************************************************)
StripIdle == strip_in = <<>> /\ StripStart

MaskIdle == mask_in = <<>> /\ MaskStart

\* an existing, unencrypted file of one page
PdfIdle ==
    /\ pdf_doc = [exists |-> TRUE, encrypted |-> FALSE, decrypt |-> "ok", pages |-> 1]
    /\ PdfStart

Init ==
    /\ RateStart
    /\ StripIdle
    /\ MaskIdle
    /\ PdfIdle
    /\ ChatStart

Spec == Init /\ [][Next]_vars

SpecSeq == Init /\ [][NextSeq]_vars

\* _strip_html on every text of at most MaxHtmlFrags pieces
InitStrip ==
    /\ RateStart
    /\ MaskIdle
    /\ PdfIdle
    /\ ChatStart
    /\ strip_in \in TextsOf(HtmlFrags, MaxHtmlFrags)
    /\ StripStart

NextStrip ==
    \/ StripScripts
    \/ StripTags

SpecStrip == InitStrip /\ [][NextStrip]_vars

\* _mask_sensitive on every text of at most MaxPiiFrags pieces
InitMask ==
    /\ RateStart
    /\ StripIdle
    /\ PdfIdle
    /\ ChatStart
    /\ mask_in \in TextsOf(PiiFrags, MaxPiiFrags)
    /\ MaskStart

NextMask == MaskRule

SpecMask == InitMask /\ [][NextMask]_vars

\* one request to a PDF route, for every state of the file on disk
InitPdf ==
    /\ RateStart
    /\ StripIdle
    /\ MaskIdle
    /\ ChatStart
    /\ pdf_doc \in PdfDocs
    /\ PdfStart

NextPdf ==
    \/ PrCardPdfFields
    \/ PrCardPdfFill
    \/ PrCardPdfStamp

SpecPdf == InitPdf /\ [][NextPdf]_vars

\* chat requests, handled one after the other, while time passes
NextChat ==
    \/ Tick(MaxClock)
    \/ ChatReceive
    \/ ChatRateLimit
    \/ ChatThrottled
    \/ ChatStrip
    \/ ChatMask
    \/ ChatLlm
    \/ ChatRespond

SpecChat == Init /\ [][NextChat]_vars

(***************************************************************************)
(* Claims about the rate limiter.                                          *)
(***************************************************************************)
\* the number of entries of seq that satisfy Test
CountIn(seq, Test(_)) == Cardinality({i \in DOMAIN seq : Test(seq[i])})

Sorted(seq) == \A i, j \in DOMAIN seq : i < j => seq[i] <= seq[j]

\* the timestamps accepted for the client of thread t before t's own call
AcceptedBefore(t) ==
    IF ret[t] = "False"
    THEN SubSeq(accepted[ip[t]], 1, Len(accepted[ip[t]]) - 1)
    ELSE accepted[ip[t]]

\* the oldest of the (at most) RATE_LIMIT_PER_MIN most recently accepted timestamps
FirstOfLastTen(seq) ==
    seq[IF Len(seq) > RATE_LIMIT_PER_MIN THEN Len(seq) - RATE_LIMIT_PER_MIN + 1 ELSE 1]

\* C1: in a sequence of calls, a call returns limited exactly when 10 requests
\* of its client were accepted in the 60 seconds up to its clock value; so no
\* 60-second window holds more than 10 accepted requests, and a call made 61
\* seconds after the first of the accepted requests is accepted.
C1_TenPerWindow ==
    /\ \A t \in Threads :
        pc[t] = "release" =>
            LET prior == AcceptedBefore(t)
                InWindow(ts) == now[t] - ts <= WINDOW_SECONDS
            IN  /\ (ret[t] = "True") <=> (CountIn(prior, InWindow) >= RATE_LIMIT_PER_MIN)
                /\ (prior # <<>> /\ now[t] - FirstOfLastTen(prior) >= WINDOW_SECONDS + 1)
                        => ret[t] = "False"
    /\ \A c \in Clients : \A i \in DOMAIN accepted[c] :
        LET From(ts) == accepted[c][i] <= ts /\ ts <= accepted[c][i] + WINDOW_SECONDS
        IN  CountIn(accepted[c], From) <= RATE_LIMIT_PER_MIN

\* ten requests were accepted at time 0, and the call made at time 61 is accepted
C1_Witness ==
    \E t \in Threads :
        /\ pc[t] = "release" /\ ret[t] = "False" /\ now[t] = WINDOW_SECONDS + 1
        /\ Len(accepted[ip[t]]) = RATE_LIMIT_PER_MIN + 1
        /\ accepted[ip[t]][RATE_LIMIT_PER_MIN] = 0

\* C2: under every interleaving the evict/count/append step is atomic: at most
\* one thread is inside it, a record never holds more than 10 timestamps, a
\* call that returns False has its timestamp in the record, and no accepted
\* timestamp still inside the window is missing from the record.
C2_AtomicUpdate ==
    /\ Cardinality({t \in Threads : InCritical(t)}) <= 1
    /\ \A t \in Threads : InCritical(t) <=> rate_lock = t
    /\ \A c \in Clients : Len(rate_bucket[c]) <= RATE_LIMIT_PER_MIN
    /\ \A t \in Threads :
        (pc[t] = "release" /\ ret[t] = "False") =>
            /\ rate_bucket[ip[t]] # <<>>
            /\ rate_bucket[ip[t]][Len(rate_bucket[ip[t]])] = now[t]
    /\ \A c \in Clients : \A i \in DOMAIN accepted[c] :
        LET Same(ts) == ts = accepted[c][i]
        IN  clock - accepted[c][i] <= WINDOW_SECONDS =>
                CountIn(rate_bucket[c], Same) = CountIn(accepted[c], Same)

\* two calls for one client overlap: one holds the lock having counted 9
\* entries, the other waits for the lock
C2_Witness ==
    \E t, u \in Threads :
        /\ t # u /\ ip[t] = ip[u]
        /\ pc[t] = "append" /\ pc[u] = "acquire"
        /\ Len(rate_bucket[ip[t]]) = RATE_LIMIT_PER_MIN - 1

\* C3: every record is ordered oldest first, and when a call completes every
\* timestamp left in its client's record is >= now - 60.
C3_RecordInvariant ==
    /\ \A c \in Clients : Sorted(rate_bucket[c])
    /\ \A t \in Threads :
        pc[t] = "release" =>
            \A i \in DOMAIN rate_bucket[ip[t]] :
                rate_bucket[ip[t]][i] >= now[t] - WINDOW_SECONDS

\* C9: a record changes only under the lock holder's call for that client,
\* either by evicting an expired head or by the append of a call that returns
\* False; the step that decides "limited" changes no record.
C9_LimitedCallFrame ==
    [][ /\ \A c \in Clients :
            \/ rate_bucket'[c] = rate_bucket[c]
            \/ /\ rate_lock # 0
               /\ ip[rate_lock] = c
               /\ \/ /\ rate_bucket[c] # <<>>
                     /\ rate_bucket'[c] = Tail(rate_bucket[c])
                     /\ now[rate_lock] - Head(rate_bucket[c]) > WINDOW_SECONDS
                  \/ /\ rate_bucket'[c] = Append(rate_bucket[c], now[rate_lock])
                     /\ ret'[rate_lock] = "False"
        /\ \A t \in Threads :
            (ret'[t] = "True" \/ ret[t] = "True") => rate_bucket' = rate_bucket
      ]_vars

\* a call is about to return limited while another client has a record
C9_Witness ==
    \E t \in Threads : \E c \in Clients :
        /\ pc[t] = "release" /\ ret[t] = "True"
        /\ c # ip[t] /\ rate_bucket[c] # <<>>
        /\ Len(rate_bucket[ip[t]]) = RATE_LIMIT_PER_MIN

(***************************************************************************)
(* Claims about the sanitizer.                                             *)
(***************************************************************************)
\* position i of s starts a script open tag <script\b[^>]*>: the position of
\* the ">" that ends the tag, 0 when no such tag starts at i
OpenTagEnd(s, i) ==
    IF /\ MatchLitIgnoreCase(s, i, ScriptOpen)
       /\ i + Len(ScriptOpen) <= Len(s)
       /\ ~IsWord(s[i + Len(ScriptOpen)])
    THEN IndexOf(s, ">", i + Len(ScriptOpen))
    ELSE 0

\* The script blocks of s as a reader of the markup finds them from position
\* i on: the leftmost open tag that has a close tag behind it, up to the first
\* such close tag, then the blocks behind that one.  A block is the pair of
\* the position of the open tag's ">" and the position of the close tag's "<";
\* its body lies strictly between the two.
RECURSIVE ScriptBlocks(_, _)
ScriptBlocks(s, i) ==
    IF i > Len(s) THEN {}
    ELSE LET gt == OpenTagEnd(s, i)
             close == IF gt = 0 THEN 0 ELSE CloseIndex(s, gt + 1)
         IN  IF close = 0 THEN ScriptBlocks(s, i + 1)
             ELSE {<<gt, close>>} \cup ScriptBlocks(s, close + Len(ScriptClose))

\* the positions of s inside the body of one of its script blocks
ScriptBodies(s) ==
    UNION {(b[1] + 1)..(b[2] - 1) : b \in ScriptBlocks(s, 1)}

\* text has a tag-like run <...>: a "<", a character that is not ">", and a
\* ">" somewhere behind it
HasTag(text) ==
    \E i \in 1..(Len(text) - 2) :
        /\ text[i] = "<"
        /\ text[i + 1] # ">"
        /\ \E j \in (i + 2)..Len(text) : text[j] = ">"

\* C7 (amended): the body of every script block of the input text is absent
\* from the returned text, and the returned text holds no tag-like run <...>.
C7_InputScriptBodiesRemoved ==
    strip_pc = 2 =>
        /\ StripSurvivors \cap ScriptBodies(strip_in) = {}
        /\ ~HasTag(StripOut)

\* a script block with a non-empty body was stripped from the input
C7_Witness ==
    /\ strip_pc = 2
    /\ ScriptBodies(strip_in) # {}
    /\ StripOut # <<>>

\* C7 (as claimed): no text that stood between a script open tag and its close
\* tag survives, also when the tags only form once the first pass has removed
\* an inner block: neither the bodies of the input's script blocks nor those
\* of the blocks of the text after the first pass are in the returned text.
C7_NoScriptBodySurvives ==
    strip_pc = 2 =>
        /\ StripSurvivors \cap ScriptBodies(strip_in) = {}
        /\ {strip_kept2[j] : j \in DOMAIN strip_kept2} \cap ScriptBodies(StripMid) = {}

\* the substring of s from position i to before position e is a match of
\* patterns[rule], word boundaries included
Matches(rule, s, i, e) ==
    /\ i >= 1 /\ e > i /\ e <= Len(s) + 1
    /\ WordBoundary(s, i) /\ WordBoundary(s, e)
    /\ CASE rule = 1 ->
              /\ e = i + 11
              /\ \A k \in i..(e - 1) :
                    IF k - i \in {3, 6} THEN s[k] = "-" ELSE IsDigit(s[k])
         [] rule = 2 -> e = i + 9 /\ \A k \in i..(e - 1) : IsDigit(s[k])
         [] rule = 3 ->
              /\ IsDigit(s[i])
              /\ \A k \in i..(e - 1) : IsDigit(s[k]) \/ s[k] \in Separators
              /\ Cardinality({k \in i..(e - 1) : IsDigit(s[k])}) \in 13..19
         [] rule = 4 ->
              \E letters \in 1..2 :
                  /\ e - i - letters \in 6..8
                  /\ \A k \in i..(e - 1) :
                        IF k < i + letters THEN IsUpper(s[k]) ELSE IsDigit(s[k])
         [] rule = 5 ->
              /\ e - i \in 8..9
              /\ \A k \in i..(e - 1) : IsUpper(s[k]) \/ IsDigit(s[k])

\* s holds a match of patterns[rule]
Occurs(rule, s) ==
    \E i \in 1..Len(s) : \E e \in (i + 1)..(Len(s) + 1) : Matches(rule, s, i, e)

\* the match is the word REDACTED of a redaction token
InsideToken(s, i, e) ==
    /\ i >= 2 /\ e <= Len(s)
    /\ SubSeq(s, i - 1, e) = RedactionToken

\* the place of a warning's category in the declaration order of the patterns
Rank(warning) ==
    CHOOSE r \in 1..NumRules :
        /\ WarningFor(RuleLabel[r]) = warning
        /\ \A q \in 1..(r - 1) : WarningFor(RuleLabel[q]) # warning

\* C6, one turn of the loop: a rule whose pattern occurs in the current text
\* appends one warning naming its category and leaves no occurrence of its
\* pattern but the redaction tokens it wrote; any other rule changes nothing.
C6_RuleApplied ==
    mask_rule' = mask_rule + 1 =>
        IF Occurs(mask_rule, masked)
        THEN /\ warnings' = Append(warnings, WarningFor(RuleLabel[mask_rule]))
             /\ Contains(masked', RedactionToken)
             /\ \A i \in 1..Len(masked') : \A e \in (i + 1)..(Len(masked') + 1) :
                    Matches(mask_rule, masked', i, e) => InsideToken(masked', i, e)
        ELSE masked' = masked /\ warnings' = warnings

\* C6, the result: the warnings are in pattern-declaration order, and a text
\* with a 3-2-4 digit SSN gets the "SSN/SIN" warning first and comes back with
\* a redaction token and no SSN.
C6_Result ==
    mask_rule = NumRules + 1 =>
        /\ \A j, k \in DOMAIN warnings : j < k => Rank(warnings[j]) <= Rank(warnings[k])
        /\ Occurs(1, mask_in) =>
              /\ warnings # <<>>
              /\ warnings[1] = WarningFor("SSN/SIN")
              /\ Contains(masked, RedactionToken)
              /\ ~Occurs(1, masked)

\* C6: the five rules are applied in declaration order, each rule that matches
\* replaces all its occurrences by the redaction token and appends exactly
\* one warning, so the warnings come in declaration order and an SSN is masked
\* and reported.
C6_RulesInOrder == [][C6_RuleApplied]_vars /\ []C6_Result

\* a text with two SSNs and a 9-digit number has been masked: two rules fired
C6_Witness ==
    /\ mask_rule = NumRules + 1
    /\ Occurs(1, mask_in) /\ Occurs(2, mask_in)
    /\ Len(warnings) >= 2
    /\ warnings[2] = WarningFor("SIN")

\* C10: the redaction token matches none of the later patterns: a warning is
\* emitted for a category only if the input itself held a match of one of
\* that category's patterns, and no redaction token is masked a second time.
C10_TokenNeverRematched ==
    mask_rule = NumRules + 1 =>
        /\ \A j \in DOMAIN warnings :
              \E r \in 1..NumRules :
                  WarningFor(RuleLabel[r]) = warnings[j] /\ Occurs(r, mask_in)
        /\ ~Contains(masked, <<"[">> \o RedactionToken)


(***************************************************************************)
(* Claims about the chat handler (SpecChat).                               *)
(***************************************************************************)
\* the functions a request that is not throttled goes through, in order
FullTrace ==
    <<"_rate_limited", "_strip_html", "_mask_sensitive",
      "_build_messages", "_call_llm", "_parse_model_json">>

IsPrefix(a, b) == Len(a) <= Len(b) /\ a = SubSeq(b, 1, Len(a))

\* C4: the chat handler consults the rate limiter first.  When _rate_limited
\* returned True the request is answered 429 with the rate-limit warning and
\* _rate_limited is the only function that ran for it; when it returned False
\* the handler runs _strip_html, _mask_sensitive, _build_messages, _call_llm
\* and _parse_model_json in that order and answers 200 with a ChatResponse.
C4_RateLimitGatesChat ==
    /\ chat_trace # <<>> => chat_trace[1] = "_rate_limited"
    /\ chat_limited = "none" => chat_trace = <<>> /\ chat_resp = NoResponse
    /\ chat_limited = "True" =>
        /\ chat_trace = <<"_rate_limited">>
        /\ chat_pc \in {"throttled", "idle"}
        /\ chat_pc = "throttled" => Len(rate_bucket[chat_ip]) = RATE_LIMIT_PER_MIN
        /\ chat_pc = "idle" =>
            /\ chat_resp.status = 429
            /\ chat_resp.warnings = <<RateLimitWarning>>
    /\ chat_limited = "False" =>
        /\ IsPrefix(chat_trace, FullTrace)
        /\ chat_pc \in {"strip", "mask", "llm", "respond", "idle"}
        /\ chat_pc = "idle" =>
            /\ chat_trace = FullTrace
            /\ chat_resp.status = 200
            /\ \A i \in 1..Len(chat_resp.warnings) : chat_resp.warnings[i] # RateLimitWarning
    /\ chat_resp.status = 429 => chat_limited = "True"
    /\ chat_resp.status = 200 => chat_limited = "False"

\* an eleventh request inside the window has been answered 429
C4_Witness ==
    /\ chat_pc = "idle"
    /\ chat_limited = "True"
    /\ chat_resp.status = 429
    /\ chat_trace = <<"_rate_limited">>

(***************************************************************************)
(* Claims about the PDF field service (SpecPdf).                           *)
(***************************************************************************)
\* C5: every PDF operation answers 404 and produces no output when the source
\* file is missing, and answers 400 and produces no output when the document
\* reports encryption and the blank-password decrypt does not succeed, whether
\* the decrypt raises or merely reports failure.
C5_LoadErrors ==
    pdf_req # NoRequest =>
        /\ ~pdf_doc.exists => pdf_resp.status = 404 /\ pdf_resp.body = NoBody
        /\ (pdf_doc.exists /\ pdf_doc.encrypted /\ pdf_doc.decrypt # "ok") =>
            pdf_resp.status = 400 /\ pdf_resp.body = NoBody

\* the field fill of a written document: what was applied to each page, and
\* the entries set on the document root
FillState(document) == [pages |-> document.pages, root |-> document.root]

NoDrawing(document) ==
    \A page \in DOMAIN document.overlay : document.overlay[page] = <<>>

NothingToDraw(stamps, pages) ==
    \A i \in 1..Len(stamps) :
        StripSpaces(stamps[i].text) = <<>> \/ stamps[i].page >= pages

\* C8: stampOverlay performs the same field fill as fillFields: for the same
\* values and flatten flag the document that _stamp_pdf writes has the field
\* fill state of the one _fill_pdf writes (normalized values applied on every
\* page, flatten applied, needs-appearance flag set), and when every stamp has
\* empty or whitespace-only text or a page outside the document, no drawing
\* operation is issued.
C8_StampFillsLikeFill ==
    (pdf_req.op = "stampOverlay" /\ pdf_resp.status = 200) =>
        /\ FillState(pdf_resp.body)
             = FillState(FillPdf(pdf_doc, pdf_req.fields, pdf_req.flatten).body)
        /\ NothingToDraw(pdf_req.stamps, pdf_doc.pages) => NoDrawing(pdf_resp.body)

=============================================================================
